---------------------------- MODULE Spec2Model ----------------------------
(***************************************************************************)
(* A model of the design-search engine of optidex (src/v2):                *)
(*                                                                         *)
(*   cordex_continuous  (cordex_continuous_parallel.py)  the continuous    *)
(*       coordinate-exchange optimizer with its epoch scheduler, and       *)
(*   bo_loop            (bayesian_opt.py)  the surrogate refinement loop.  *)
(*                                                                         *)
(* Modelling conventions.                                                  *)
(*  - A design matrix is a sequence of its coordinates, row by row; the    *)
(*    box [-1, 1] of every coordinate is the grid Levels.  The model runs  *)
(*    the search on one-column designs with J_cb = [[1]] and no            *)
(*    penalization (R_0 = None, ridge_pen = 0), so the augmented regressor *)
(*    matrix is Z = [1 x] and the information matrix is                    *)
(*    M = [[n, s], [s, q]] with n = runs, s = sum x_i, q = sum x_i^2.      *)
(*  - numpy arrays are objects: heap maps an object to its contents and    *)
(*    Model_mat, Best_des hold references (0 is None), so "Best_des =      *)
(*    Model_mat" binds a second name to the same array.                    *)
(*  - Best_des, Best_obj, Model_mat, run and feat name the variables that  *)
(*    cordex_continuous declares (lines 141-145, 161-162); run_epoch,      *)
(*    objective and check all act on those.                                *)
(*  - The sequential loop passes no lock (args is None): there the two     *)
(*    "with update_lock" statements of run_epoch acquire nothing.  In the  *)
(*    pool the lock is manager.Lock(), which is not reentrant.             *)
(*  - float values are integers; Inf and NaN are two reserved numbers and  *)
(*    every comparison goes through Lt, which is false on NaN.             *)
(***************************************************************************)
EXTENDS Integers, Sequences, FiniteSets, TLC

---------------------------------------------------------------------------
(* Bounds of the model *)

MaxEpochs == 2

MaxFinalIter == 1

MaxWorkers == 2

MaxRounds == 3

MaxRuns == 4

MaxScalars == 2

---------------------------------------------------------------------------
(* Numbers *)

Inf == 1000

NaN == 2000

IsNaN(a) == a = NaN

Lt(a, b) == ~IsNaN(a) /\ ~IsNaN(b) /\ a < b

Neg(a) == IF IsNaN(a) THEN NaN ELSE 0 - a

Abs(a) == IF IsNaN(a) THEN NaN ELSE IF a < 0 THEN 0 - a ELSE a

RECURSIVE SeqSum(_)
SeqSum(s) == IF s = <<>> THEN 0 ELSE Head(s) + SeqSum(Tail(s))

Levels == {-1, 0, 1}

DiscreteLevels == {-1, 1}

\* the run count of the designs the search is run on
Runs == 2

Designs == [1..Runs -> Levels]

DiscreteDesigns == [1..Runs -> DiscreteLevels]

---------------------------------------------------------------------------
(* The information matrix M = Z^T Z of Z = [1 x] *)

SumSq(d) == SeqSum([i \in 1..Len(d) |-> d[i] * d[i]])

Det(d) == Len(d) * SumSq(d) - SeqSum(d) * SeqSum(d)

Singular(d) == Det(d) = 0

\* trace of the inverse of M: (n + q) / det(M)
TraceInv(d) == (Len(d) + SumSq(d)) \div Det(d)

---------------------------------------------------------------------------
(* cordex_continuous: state *)

VARIABLES
    runs, f_list, scalars, optimality, method, epochs, random_start,
    final_pass, final_pass_iter, num_processes,
    pcMain, error,
    heap, Model_mat, Best_des, Best_obj,
    update_lock, nextTask, done,
    pc, task, objective_value, run,
    result, started, optimized,
    fiter

cinputs == <<runs, f_list, scalars, optimality, method, epochs, random_start,
             final_pass, final_pass_iter, num_processes>>

cshared == <<heap, Model_mat, Best_des, Best_obj>>

cworkers == <<pc, task, objective_value, run>>

cvars == <<cinputs, pcMain, error, cshared, update_lock, nextTask, done,
           cworkers, result, started, optimized, fiter>>

\* bo_loop: state (the functions are described where their actions are)
VARIABLES
    bo_pc, X_init, y_init, best_y_init, epochs_list, epoch,
    bo_Best_des, Opt_best,
    evaluated, failed, generated

bvars == <<bo_pc, X_init, y_init, best_y_init, epochs_list, epoch,
           bo_Best_des, Opt_best, evaluated, failed, generated>>

vars == <<cvars, bvars>>

Methods == {"Nelder-Mead", "Powell", "TNC", "L-BFGS-B"}

\* the main thread of cordex_continuous (the sequential loop, the final pass)
Main == 0

Parallel == num_processes # 0

\* the threads of control that run run_epoch
Workers == IF Parallel THEN 1..num_processes ELSE {Main}

Threads == 0..MaxWorkers

Mat == heap[Model_mat]

---------------------------------------------------------------------------
(* cordex_continuous.objective, lines 53-103, on the design d that          *)
(* Model_mat holds after "Model_mat[run, feat] = x": the values it can      *)
(* return.  P is the identity, so MATRIX = Mu.  np.linalg.inv raises        *)
(* LinAlgError on a singular matrix; np.linalg.det of a singular matrix     *)
(* returns 0 or, where the handler of line 92 is taken, fails.              *)

ValidCriterion == optimality \in {"A", "D"}

objective(d) ==
    IF optimality = "D"
    THEN IF Singular(d) THEN {Neg(0), Neg(NaN)} ELSE {Neg(Det(d))}
    ELSE IF Singular(d) THEN {NaN} ELSE {TraceInv(d)}

\* check, lines 105-109
check(obj) ==
    IF optimality = "A" THEN Lt(0, obj) /\ Lt(obj, Best_obj)
    ELSE IF optimality = "D" THEN Lt(obj, 0) /\ Lt(0, Best_obj)
    ELSE FALSE

---------------------------------------------------------------------------
(* cordex_continuous: the configuration checks, lines 134-145 *)

Validate ==
    /\ pcMain = "validate"
    /\ IF method \notin Methods
       THEN pcMain' = "raised" /\ error' = "ValueError: Invalid method"
       ELSE IF runs < Len(f_list) + scalars
       THEN pcMain' = "raised" /\ error' = "ValueError: Design not Estimable"
       ELSE pcMain' = "epochs" /\ error' = error
    /\ UNCHANGED <<bvars, cinputs, cshared, update_lock, nextTask, done, cworkers,
                   result, started, optimized, fiter>>

---------------------------------------------------------------------------
(* run_epoch, lines 111-132, one action per statement group *)

\* lines 148-149 / 154: the next epoch is handed to a free thread
Fetch(w) ==
    /\ pcMain = "epochs"
    /\ w \in Workers
    /\ pc[w] = "idle"
    /\ nextTask < epochs
    /\ nextTask' = nextTask + 1
    /\ task' = [task EXCEPT ![w] = nextTask + 1]
    /\ pc' = [pc EXCEPT ![w] = "lock"]
    /\ UNCHANGED <<bvars, cinputs, pcMain, error, cshared, update_lock, done,
                   objective_value, run, result, started, optimized, fiter>>

\* AcquireOuter entering without waiting for the lock to be free
AcquireOuterNoWait(w) ==
    /\ pcMain = "epochs"
    /\ pc[w] = "lock"
    /\ update_lock' = IF Parallel THEN w ELSE update_lock
    /\ objective_value' = [objective_value EXCEPT ![w] = Inf]
    /\ pc' = [pc EXCEPT ![w] = "start"]
    /\ UNCHANGED <<bvars, cinputs, pcMain, error, cshared, nextTask, done, task, run,
                   result, started, optimized, fiter>>

\* lines 113-114: with update_lock: objective_value = np.inf
AcquireOuter(w) ==
    /\ pcMain = "epochs"
    /\ pc[w] = "lock"
    /\ Parallel => update_lock = 0
    /\ update_lock' = IF Parallel THEN w ELSE update_lock
    /\ objective_value' = [objective_value EXCEPT ![w] = Inf]
    /\ pc' = [pc EXCEPT ![w] = "start"]
    /\ UNCHANGED <<bvars, cinputs, pcMain, error, cshared, nextTask, done, task, run,
                   result, started, optimized, fiter>>

\* lines 115-117: the random starting design
StartRandom(w) ==
    /\ pcMain = "epochs"
    /\ pc[w] = "start"
    /\ random_start
    /\ \E d \in Designs :
          heap' = [heap EXCEPT ![task[w]] = d]
    /\ Model_mat' = task[w]
    /\ started' = TRUE
    /\ run' = [run EXCEPT ![w] = 1]
    /\ pc' = [pc EXCEPT ![w] = "sweep"]
    /\ UNCHANGED <<bvars, cinputs, pcMain, error, Best_des, Best_obj, update_lock,
                   nextTask, done, task, objective_value, result, optimized,
                   fiter>>

\* lines 118-120: the warm start by cordex_discrete over the levels {-1, 1}
StartDiscrete(w) ==
    /\ pcMain = "epochs"
    /\ pc[w] = "start"
    /\ ~random_start
    /\ ValidCriterion
    /\ \E d \in DiscreteDesigns :
          heap' = [heap EXCEPT ![task[w]] = d]
    /\ Model_mat' = task[w]
    /\ started' = TRUE
    /\ run' = [run EXCEPT ![w] = 1]
    /\ pc' = [pc EXCEPT ![w] = "sweep"]
    /\ UNCHANGED <<bvars, cinputs, pcMain, error, Best_des, Best_obj, update_lock,
                   nextTask, done, task, objective_value, result, optimized,
                   fiter>>

\* line 119 with a criterion cordex_discrete does not know: the collaborator
\* rejects it and returns no design
StartDiscreteRaise(w) ==
    /\ pcMain = "epochs"
    /\ pc[w] = "start"
    /\ ~random_start
    /\ ~ValidCriterion
    /\ pcMain' = "raised"
    /\ error' = "ValueError: Invalid criterion"
    /\ update_lock' = 0
    /\ UNCHANGED <<bvars, cinputs, cshared, nextTask, done, cworkers, result,
                   started, optimized, fiter>>

\* lines 121-126: one coordinate of the sweep (feat is the single column)
SweepCoord(w) ==
    /\ pcMain = "epochs"
    /\ pc[w] = "sweep"
    /\ ValidCriterion
    /\ \E x \in Levels :
          LET d == [Mat EXCEPT ![run[w]] = x] IN
          /\ heap' = [heap EXCEPT ![Model_mat] = d]
          /\ \E v \in objective(d) :
                /\ objective_value' = [objective_value EXCEPT ![w] = v]
                /\ result' = IF run[w] = Len(Mat)
                             THEN [result EXCEPT ![task[w]] = v]
                             ELSE result
    /\ optimized' = TRUE
    /\ run' = [run EXCEPT ![w] = run[w] + 1]
    /\ pc' = [pc EXCEPT ![w] = IF run[w] = Len(Mat) THEN "check" ELSE "sweep"]
    /\ UNCHANGED <<bvars, cinputs, pcMain, error, Model_mat, Best_des, Best_obj,
                   update_lock, nextTask, done, task, started, fiter>>

\* line 123 with an invalid criterion: the first evaluation of objective
\* raises (lines 101-103); the with statement releases the lock
SweepRaise(w) ==
    /\ pcMain = "epochs"
    /\ pc[w] = "sweep"
    /\ ~ValidCriterion
    /\ pcMain' = "raised"
    /\ error' = "ValueError: Invalid criterion"
    /\ update_lock' = 0
    /\ UNCHANGED <<bvars, cinputs, cshared, nextTask, done, cworkers, result,
                   started, optimized, fiter>>

\* line 128, not accepted: the epoch ends and the lock is released
CheckReject(w) ==
    /\ pcMain = "epochs"
    /\ pc[w] = "check"
    /\ ~check(objective_value[w])
    /\ pc' = [pc EXCEPT ![w] = "idle"]
    /\ update_lock' = 0
    /\ done' = done + 1
    /\ UNCHANGED <<bvars, cinputs, pcMain, error, cshared, nextTask, task,
                   objective_value, run, result, started, optimized, fiter>>

\* line 128, accepted: on to the inner with statement
CheckAccept(w) ==
    /\ pcMain = "epochs"
    /\ pc[w] = "check"
    /\ check(objective_value[w])
    /\ pc' = [pc EXCEPT ![w] = "inner"]
    /\ UNCHANGED <<bvars, cinputs, pcMain, error, cshared, update_lock, nextTask, done,
                   task, objective_value, run, result, started, optimized,
                   fiter>>

\* line 129: with update_lock, a second time
AcquireInner(w) ==
    /\ pcMain = "epochs"
    /\ pc[w] = "inner"
    /\ Parallel => update_lock = 0
    /\ update_lock' = IF Parallel THEN w ELSE update_lock
    /\ pc' = [pc EXCEPT ![w] = "write"]
    /\ UNCHANGED <<bvars, cinputs, pcMain, error, cshared, nextTask, done, task,
                   objective_value, run, result, started, optimized, fiter>>

\* lines 130-132: the second check and the write; both with blocks end
Write(w) ==
    /\ pcMain = "epochs"
    /\ pc[w] = "write"
    /\ IF check(objective_value[w])
       THEN Best_obj' = objective_value[w] /\ Best_des' = Model_mat
       ELSE UNCHANGED <<Best_obj, Best_des>>
    /\ pc' = [pc EXCEPT ![w] = "idle"]
    /\ update_lock' = 0
    /\ done' = done + 1
    /\ UNCHANGED <<bvars, cinputs, pcMain, error, heap, Model_mat, nextTask, task,
                   objective_value, run, result, started, optimized, fiter>>

---------------------------------------------------------------------------
(* cordex_continuous after the epochs, lines 156-170 *)

\* lines 147-160: every epoch has ended; enter the final pass or return
EpochsDone ==
    /\ pcMain = "epochs"
    /\ done = epochs
    /\ IF ~final_pass \/ final_pass_iter = 0
       THEN pcMain' = "returned" /\ UNCHANGED <<error, pc, run, objective_value, fiter>>
       ELSE IF Model_mat = 0
       THEN /\ pcMain' = "raised"
            /\ error' = "AttributeError: NoneType has no shape"
            /\ UNCHANGED <<pc, run, objective_value, fiter>>
       ELSE /\ pcMain' = "final"
            /\ fiter' = 1
            /\ objective_value' = [objective_value EXCEPT ![Main] = Inf]
            /\ run' = [run EXCEPT ![Main] = 1]
            /\ UNCHANGED <<error, pc>>
    /\ UNCHANGED <<bvars, cinputs, cshared, update_lock, nextTask, done, task,
                   result, started, optimized>>

\* lines 161-165: one coordinate of a final-pass sweep
FinalCoord ==
    /\ pcMain = "final"
    /\ run[Main] <= Len(Mat)
    /\ \E x \in Levels :
          LET d == [Mat EXCEPT ![run[Main]] = x] IN
          /\ heap' = [heap EXCEPT ![Model_mat] = d]
          /\ \E v \in objective(d) :
                objective_value' = [objective_value EXCEPT ![Main] = v]
    /\ run' = [run EXCEPT ![Main] = run[Main] + 1]
    /\ UNCHANGED <<bvars, cinputs, pcMain, error, Model_mat, Best_des, Best_obj,
                   update_lock, nextTask, done, pc, task, result, started,
                   optimized, fiter>>

\* lines 166-168, then the next iteration (159-160) or the return (170)
FinalCheck ==
    /\ pcMain = "final"
    /\ run[Main] > Len(Mat)
    /\ IF check(objective_value[Main])
       THEN Best_obj' = objective_value[Main] /\ Best_des' = Model_mat
       ELSE UNCHANGED <<Best_obj, Best_des>>
    /\ IF fiter < final_pass_iter
       THEN /\ fiter' = fiter + 1
            /\ objective_value' = [objective_value EXCEPT ![Main] = Inf]
            /\ run' = [run EXCEPT ![Main] = 1]
            /\ pcMain' = pcMain
       ELSE /\ pcMain' = "returned"
            /\ UNCHANGED <<fiter, objective_value, run>>
    /\ UNCHANGED <<bvars, cinputs, error, heap, Model_mat, update_lock, nextTask,
                   done, pc, task, result, started, optimized>>

\* line 170: the returned pair
Returned == <<Best_des, Abs(Best_obj)>>

---------------------------------------------------------------------------
(* bo_loop (bayesian_opt.py): state.  optimality, epochs and error are the  *)
(* parameters and the outcome of whichever function the specification runs. *)
(* The loop is modelled for feats = 1, J_cb = None, n_exp = 1 and           *)
(* initialization_method = None (get_initial_data).                         *)

BoCriteria == {"D", "A", "E", "I"}

\* the fixed-point scale of the eigenvalues
EigScale == 10

ISqrt(n) == CHOOSE r \in 0..(5 * EigScale) : r * r <= n /\ (r + 1) * (r + 1) > n

\* discriminant of the characteristic polynomial of M = [[n, s], [s, q]]
Disc(d) == (Len(d) - SumSq(d)) * (Len(d) - SumSq(d)) + 4 * SeqSum(d) * SeqSum(d)

MaxEig(d) == (EigScale * (Len(d) + SumSq(d)) + ISqrt(EigScale * EigScale * Disc(d))) \div 2

MinEig(d) == (EigScale * (Len(d) + SumSq(d)) - ISqrt(EigScale * EigScale * Disc(d))) \div 2

(* bo_loop.objective, lines 84-134: the outcomes [y, raised] of one         *)
(* evaluation, raised telling that the LinAlgError handler produced y.      *)
(* np.linalg.inv raises on a singular M; det and eigvals of a singular M    *)
(* return their value or, where the handler is taken, fail.                 *)
bo_objective(d) ==
    IF optimality = "D"
    THEN IF Singular(d)
         THEN {[y |-> Det(d), raised |-> FALSE], [y |-> Inf, raised |-> TRUE]}
         ELSE {[y |-> Det(d), raised |-> FALSE]}
    ELSE IF optimality = "A"
    THEN IF Singular(d)
         THEN {[y |-> Neg(Inf), raised |-> TRUE]}
         ELSE {[y |-> Neg(TraceInv(d)), raised |-> FALSE]}
    ELSE IF optimality = "E"
    THEN IF Singular(d)
         THEN {[y |-> Neg(MaxEig(d)), raised |-> FALSE], [y |-> Neg(Inf), raised |-> TRUE]}
         ELSE {[y |-> Neg(MaxEig(d)), raised |-> FALSE]}
    ELSE IF Singular(d)
         THEN {[y |-> MinEig(d), raised |-> FALSE], [y |-> Inf, raised |-> TRUE]}
         ELSE {[y |-> MinEig(d), raised |-> FALSE]}

SeqMax(s) == CHOOSE m \in {s[i] : i \in 1..Len(s)} : \A i \in 1..Len(s) : s[i] <= m

\* s[:-1]
DropLast(s) == IF s = <<>> THEN s ELSE SubSeq(s, 1, Len(s) - 1)

\* argmax of column 1 of epochs_list: the first row holding the maximum
ArgMax(l) ==
    CHOOSE i \in 1..Len(l) :
        /\ \A j \in 1..Len(l) : l[j].y <= l[i].y
        /\ \A j \in 1..(i - 1) : l[j].y < l[i].y

\* lines 186-187 with get_initial_data, lines 180-184
BoInit ==
    /\ bo_pc = "init"
    /\ optimality \in BoCriteria
    /\ \E d \in Designs : \E o \in bo_objective(d) :
          /\ X_init' = <<d>>
          /\ y_init' = <<o.y>>
          /\ best_y_init' = o.y
          /\ evaluated' = {[x |-> d, y |-> o.y, raised |-> o.raised]}
    /\ generated' = TRUE
    /\ epochs_list' = <<>>
    /\ epoch' = 0
    /\ bo_pc' = "loop"
    /\ UNCHANGED <<cvars, bo_Best_des, Opt_best, failed>>

\* line 180 generates the design, then line 182 raises (lines 132-134)
BoInitRaise ==
    /\ bo_pc = "init"
    /\ optimality \notin BoCriteria
    /\ generated' = TRUE
    /\ bo_pc' = "raised"
    /\ error' = "ValueError: Invalid criterion"
    /\ UNCHANGED <<cinputs, pcMain, cshared, update_lock, nextTask, done,
                   cworkers, result, started, optimized, fiter>>
    /\ UNCHANGED <<X_init, y_init, best_y_init, epochs_list, epoch,
                   bo_Best_des, Opt_best, evaluated, failed>>

\* lines 190-198: gen_next_point raises; the last row is deleted
RoundFail ==
    /\ bo_pc = "loop"
    /\ epoch < epochs
    /\ X_init' = DropLast(X_init)
    /\ y_init' = DropLast(y_init)
    /\ failed' = failed + 1
    /\ epoch' = epoch + 1
    /\ UNCHANGED <<cvars, bo_pc, best_y_init, epochs_list, bo_Best_des,
                   Opt_best, evaluated, generated>>

\* lines 190-193, 199-205: a candidate is proposed from a non-empty history,
\* evaluated and appended
RoundOk ==
    /\ bo_pc = "loop"
    /\ epoch < epochs
    /\ X_init # <<>>
    /\ \E new_candidates \in Designs : \E o \in bo_objective(new_candidates) :
          /\ X_init' = Append(X_init, new_candidates)
          /\ y_init' = Append(y_init, o.y)
          /\ best_y_init' = SeqMax(Append(y_init, o.y))
          /\ epochs_list' = Append(epochs_list,
                 [epoch |-> epoch, y |-> o.y, x |-> new_candidates])
          /\ evaluated' = evaluated \cup
                 {[x |-> new_candidates, y |-> o.y, raised |-> o.raised]}
    /\ epoch' = epoch + 1
    /\ UNCHANGED <<cvars, bo_pc, bo_Best_des, Opt_best, failed, generated>>

\* lines 207-213 with at least one recorded round
Finish ==
    /\ bo_pc = "loop"
    /\ epoch = epochs
    /\ epochs_list # <<>>
    /\ LET epochs_max_id == ArgMax(epochs_list) IN
          /\ bo_Best_des' = epochs_list[epochs_max_id].x
          /\ Opt_best' = IF optimality \notin {"D", "I"}
                         THEN Neg(epochs_list[epochs_max_id].y)
                         ELSE epochs_list[epochs_max_id].y
    /\ bo_pc' = "returned"
    /\ UNCHANGED <<cvars, X_init, y_init, best_y_init, epochs_list, epoch,
                   evaluated, failed, generated>>

\* lines 207-208 with no recorded round: the empty array has one axis
FinishRaise ==
    /\ bo_pc = "loop"
    /\ epoch = epochs
    /\ epochs_list = <<>>
    /\ bo_pc' = "raised"
    /\ error' = "IndexError: too many indices for array"
    /\ UNCHANGED <<cinputs, pcMain, cshared, update_lock, nextTask, done,
                   cworkers, result, started, optimized, fiter>>
    /\ UNCHANGED <<X_init, y_init, best_y_init, epochs_list, epoch,
                   bo_Best_des, Opt_best, evaluated, failed, generated>>

---------------------------------------------------------------------------
(* Specifications *)

FLists == {<<1>>, <<2>>, <<3>>, <<1, 1>>, <<1, 2>>, <<2, 2>>}

CordexIdle ==
    /\ pcMain = "validate"
    /\ error = "none"
    /\ heap = [o \in 1..MaxEpochs |-> <<>>]
    /\ Model_mat = 0
    /\ Best_des = 0
    /\ Best_obj = Inf
    /\ update_lock = 0
    /\ nextTask = 0
    /\ done = 0
    /\ pc = [w \in Threads |-> "idle"]
    /\ task = [w \in Threads |-> 0]
    /\ objective_value = [w \in Threads |-> Inf]
    /\ run = [w \in Threads |-> 0]
    /\ result = [e \in 1..MaxEpochs |-> NaN]
    /\ started = FALSE
    /\ optimized = FALSE
    /\ fiter = 0

BoIdle ==
    /\ X_init = <<>>
    /\ y_init = <<>>
    /\ best_y_init = 0
    /\ epochs_list = <<>>
    /\ epoch = 0
    /\ bo_Best_des = <<>>
    /\ Opt_best = 0
    /\ evaluated = {}
    /\ failed = 0
    /\ generated = FALSE

\* a call of cordex_continuous on a runs x 1 design
Init ==
    /\ runs = Runs
    /\ f_list = <<1>>
    /\ scalars = 0
    /\ optimality \in {"A", "D", "E"}
    /\ method \in {"L-BFGS-B", "SLSQP"}
    /\ epochs \in 0..MaxEpochs
    /\ random_start \in BOOLEAN
    /\ final_pass \in BOOLEAN
    /\ final_pass_iter \in 1..MaxFinalIter
    /\ num_processes \in 0..MaxWorkers
    /\ CordexIdle
    /\ BoIdle
    /\ bo_pc = "idle"

Next ==
    \/ Validate
    \/ \E w \in Threads : Fetch(w)
    \/ \E w \in Threads : AcquireOuter(w)
    \/ \E w \in Threads : StartRandom(w)
    \/ \E w \in Threads : StartDiscrete(w)
    \/ \E w \in Threads : StartDiscreteRaise(w)
    \/ \E w \in Threads : SweepCoord(w)
    \/ \E w \in Threads : SweepRaise(w)
    \/ \E w \in Threads : CheckReject(w)
    \/ \E w \in Threads : CheckAccept(w)
    \/ \E w \in Threads : AcquireInner(w)
    \/ \E w \in Threads : Write(w)
    \/ EpochsDone
    \/ FinalCoord
    \/ FinalCheck

Spec == Init /\ [][Next]_vars

\* the configuration checks of cordex_continuous over run counts, factor
\* lists and scalar counts
InitConfig ==
    /\ runs \in 0..MaxRuns
    /\ f_list \in FLists
    /\ scalars \in 0..MaxScalars
    /\ optimality \in {"A", "D", "E"}
    /\ method \in {"L-BFGS-B", "SLSQP"}
    /\ epochs = 0
    /\ random_start = TRUE
    /\ final_pass = FALSE
    /\ final_pass_iter = 0
    /\ num_processes = 0
    /\ CordexIdle
    /\ BoIdle
    /\ bo_pc = "idle"

NextConfig == Validate

SpecConfig == InitConfig /\ [][NextConfig]_vars

\* a call of bo_loop on a Runs x 1 design
InitBo ==
    /\ runs = Runs
    /\ f_list = <<1>>
    /\ scalars = 0
    /\ optimality \in BoCriteria \cup {"G"}
    /\ method = "L-BFGS-B"
    /\ epochs \in 0..MaxRounds
    /\ random_start = TRUE
    /\ final_pass = FALSE
    /\ final_pass_iter = 0
    /\ num_processes = 0
    /\ CordexIdle
    /\ BoIdle
    /\ bo_pc = "init"

NextBo ==
    \/ BoInit
    \/ BoInitRaise
    \/ RoundFail
    \/ RoundOk
    \/ Finish
    \/ FinishRaise

SpecBo == InitBo /\ [][NextBo]_vars

---------------------------------------------------------------------------
(* Properties of cordex_continuous *)

\* a value of the objective that belongs to an estimable design: a positive
\* finite trace (A), a negated positive determinant (D)
Feasible(v) ==
    IF optimality = "A" THEN Lt(0, v) /\ Lt(v, Inf) ELSE Lt(v, 0)

\* the epochs of a run with at least one epoch have all ended
EpochsExecuted == epochs >= 1 /\ done = epochs

InUpdate == {w \in Threads : pc[w] \in {"check", "inner", "write"}}

\* C2: in the pool, at most one epoch at a time is between its read of
\* Best_obj for the acceptance comparison and its write of the pair, and that
\* epoch holds update_lock.
C2_UpdatesMutuallyExclusive ==
    Parallel =>
        /\ Cardinality(InUpdate) <= 1
        /\ \A w \in InUpdate : update_lock = w

\* C2, its case: an epoch has passed the acceptance comparison while another
\* epoch of the pool is waiting for the lock
C2_Witness ==
    /\ Parallel
    /\ \E w \in Threads : \E v \in Threads :
          /\ w # v
          /\ pc[w] = "inner"
          /\ pc[v] = "lock"

\* the contents of the stored best design
BestContents == IF Best_des = 0 THEN <<>> ELSE heap[Best_des]

ConfigError ==
    /\ pcMain = "raised"
    /\ error \in {"ValueError: Invalid method",
                  "ValueError: Design not Estimable",
                  "ValueError: Invalid criterion"}

\* C9: with a valid method, cordex_continuous raises the non-estimable error
\* exactly when runs < sum(f_list) + scalars.
C9_EstimabilityCheck ==
    (pcMain # "validate" /\ method \in Methods) =>
        ((pcMain = "raised" /\ error = "ValueError: Design not Estimable")
            <=> runs < SeqSum(f_list) + scalars)

\* C10: a call that ends with a configuration error has generated no
\* starting design and optimized no coordinate.
C10_ConfigErrorBeforeWork ==
    ConfigError => ~started /\ ~optimized

---------------------------------------------------------------------------
(* Properties of bo_loop *)

\* the internal (maximized) objective of the returned pair, before the sign
\* correction of line 212
ReturnedInternal ==
    IF optimality \notin {"D", "I"} THEN Neg(Opt_best) ELSE Opt_best

\* C4: the returned objective is the maximum over every observation
\* evaluated in the run, the initial one included, and the returned design
\* is a design evaluated to it.
C4_ReturnsBestEver ==
    bo_pc = "returned" =>
        /\ \A o \in evaluated : o.y <= ReturnedInternal
        /\ \E o \in evaluated : o.x = bo_Best_des /\ o.y = ReturnedInternal

\* the initial observations of get_initial_data: one flattened design
InitialObservations == 1

\* C5: at the end the history holds the initial observations plus one
\* observation per round, minus one per failed round.
C5_HistoryLength ==
    bo_pc = "returned" =>
        Len(X_init) = InitialObservations + epochs - failed

\* C6: round over round the tracked best value never decreases.
C6_BestMonotone ==
    [][bo_pc = "loop" => best_y_init' >= best_y_init]_vars

\* C7: once a round has failed, bo_loop still never ends in an exception.
C7_FailureNeverSurfaces ==
    failed > 0 => bo_pc # "raised"

\* C8: a value produced by the LinAlgError handler is worse (smaller, in the
\* maximized internal sign) than the value of every non-singular design.
C8_SentinelWorse ==
    \A o \in evaluated : \A f \in evaluated :
        (o.raised /\ ~Singular(f.x)) => o.y < f.y

---------------------------------------------------------------------------
(* cordex_continuous under fair scheduling: every thread of control that    *)
(* can take its next step eventually takes it (the operating system runs    *)
(* every pool worker and the main process).                                 *)

\* the steps of run_epoch on thread w
WorkerStep(w) ==
    \/ Fetch(w)
    \/ AcquireOuter(w)
    \/ StartRandom(w)
    \/ StartDiscrete(w)
    \/ StartDiscreteRaise(w)
    \/ SweepCoord(w)
    \/ SweepRaise(w)
    \/ CheckReject(w)
    \/ CheckAccept(w)
    \/ AcquireInner(w)
    \/ Write(w)

\* the steps of cordex_continuous outside run_epoch
MainStep ==
    \/ Validate
    \/ EpochsDone
    \/ FinalCoord
    \/ FinalCheck

Fairness ==
    /\ WF_vars(MainStep)
    /\ \A w \in Threads : WF_vars(WorkerStep(w))

SpecFair == Init /\ [][Next]_vars /\ Fairness

\* C11: in the pool, under fair scheduling, the epoch phase always ends: every
\* submitted epoch completes and releases update_lock (or the call raises),
\* so no worker waits for update_lock for ever.
C11_EpochsEventuallyComplete ==
    (Parallel /\ pcMain = "epochs") ~> (pcMain # "epochs")

=============================================================================
